---- MODULE Spec2Model ----
(***************************************************************************)
(* Model of elm-core's rollback primitives:                                *)
(*   snapshot_prefix  (src/core/elm-core/src/rollback/snapshot.rs)         *)
(*   restore_prefix   (src/core/elm-core/src/rollback/restore.rs)          *)
(*                                                                         *)
(* The source tree is an inode table (kind, ents, noread); the archive is  *)
(* the sequence of tar entries in the file snapshots_dir/<name>.tar.zst    *)
(* (store); the destination side is a path-indexed file system (disk)      *)
(* holding the parent directory of prefix_dir.                             *)
(***************************************************************************)
EXTENDS Integers, Sequences, FiniteSets, TLC

\* ---------------------------------------------------------------- bounds
MaxInode == 3        \* inodes of the source tree are 1..MaxInode
MaxUnreadable == 1   \* regular files of the source tree that cannot be opened
MaxEnvOps == 1       \* unlinks done by other processes while the model runs

Names == {"a", "b"}
Inodes == 1..MaxInode
Root == 1
Kinds == {"dir", "file", "symlink"}
RootName == "prefix"

\* paths of the snapshot side, as text cut into pieces
PrefixDir == <<"/", "p">>
SnapshotsDir(inside) == IF inside THEN PrefixDir \o <<"/", "s">> ELSE <<"/", "snaps">>
SnapNames == {<<"n">>, <<"/", "n">>}
NoPath == <<>>
DefaultArgs == [inside |-> FALSE, name |-> <<"n">>]
SnapArgs == [inside : BOOLEAN, name : SnapNames]
\* format!("{snapshot_name}.tar.zst")
Format(name) == name \o <<".tar.zst">>
\* Path::join: an absolute argument replaces the path it is joined to
Join(dir, f) == IF f[1] = "/" THEN f ELSE dir \o <<"/">> \o f
OutPath(a) == Join(SnapshotsDir(a.inside), Format(a.name))
\* the output file is a node of the source tree
OutInSource(a) == a.inside /\ a.name[1] # "/"
\* inodes and names of snapshots_dir and of the output file when they are
\* created below prefix_dir
SDirIno == MaxInode + 1
OutIno == MaxInode + 2
SDirName == "s"
OutName == "n.tar.zst"

VARIABLES
  kind,      \* source tree: inode -> "dir" | "file" | "symlink" ("none": no tree)
  ents,      \* source tree: directory entries <<dir inode, name, child inode>>
  noread,    \* source tree: inodes File::open fails on
  envops,    \* number of unlinks done so far by the environment
  store,     \* the file snapshots_dir/<name>.tar.zst
  sdir,      \* snapshots_dir exists
  spc,       \* position inside snapshot_prefix
  stack,     \* pending append_dir_recursive calls, innermost first
  cur,       \* the append_dir_recursive call past its symlink_metadata
  visited,   \* visited_inodes
  sret,      \* result of the last snapshot_prefix call
  quiet,     \* no unlink happened since the last call started
  over,      \* File::create truncated an archive holding an entry of a node since unlinked
  sarg,      \* arguments of snapshot_prefix: where snapshots_dir lies, snapshot_name
  sout,      \* out_path of the last call that got to compute it
  slog,      \* what snapshot_prefix has reported about skipped nodes (log
             \* lines, skip information in the returned value)
  disk,      \* the parent directory of prefix_dir: path -> node
  dest,      \* last component of prefix_dir in restore_prefix
  rpc,       \* position inside restore_prefix
  rpos,      \* index of the next archive entry archive.unpack reads
  rret,      \* result of the last restore_prefix call
  pre,       \* disk when the current restore_prefix call started
  last,      \* the tree at prefix_dir when the call before this one returned Ok
  peer,      \* a second restore_prefix call running at the same time: its
             \* prefix_dir, position, next entry, result and archive
  emarker,   \* the file <engines_dir>/<id>/installed.json
  edist,     \* the directory <engines_dir>/<id>/dist
  eroot,     \* the directory <engines_dir>/<id> exists
  eddir,     \* downloads_dir exists
  edl,       \* the file downloads_dir/<id>.tar.gz
  earg,      \* arguments of the running ensure_engine_installed call and what
             \* the url serves during it
  epc,       \* position inside ensure_engine_installed
  eret,      \* result of the last ensure_engine_installed call
  edone      \* steps the running call has completed

svars == <<kind, ents, noread, envops, store, sdir, spc, stack, cur, visited,
           sret, quiet, over, sarg, sout, slog>>
rvars == <<disk, dest, rpc, rpos, rret, pre, last, peer>>
evars == <<emarker, edist, eroot, eddir, edl, earg, epc, eret, edone>>
vars == <<svars, rvars, evars>>

\* ------------------------------------------------------- engine installation
\* contents a file can hold: one of two archives, or a cut-off download
Blobs == {"A", "B"}
Truncated == "cut"
NoFile == [exists |-> FALSE, content |-> "none"]
\* a hex string: the digest it spells and whether its letters are upper case
NoHex == [digest |-> "none", upper |-> FALSE]
HexStrings == [digest : Blobs, upper : BOOLEAN]
\* hex::encode of the Sha256 digest of the bytes read: lower-case hex
Sha256(content) == [digest |-> content, upper |-> FALSE]
ToLower(h) == [h EXCEPT !.upper = FALSE]
HashMatchesAlways(got, expected) == TRUE
HashMatches(got, expected) == ToLower(got) = ToLower(expected)

NoMarker == [exists |-> FALSE, sha |-> NoHex]
NoDist == [state |-> "absent", content |-> "none"]
\* an EngineV1 and what its source.url serves while the call runs
EngineArgs == [kind : {"url", "git"}, sha256 : HexStrings, serves : Blobs \cup {"error"}]
NoEngine == [kind |-> "none", sha256 |-> NoHex, serves |-> "error"]

EngineIdle ==
  /\ emarker = NoMarker
  /\ edist = NoDist
  /\ eroot = FALSE
  /\ eddir = FALSE
  /\ edl = NoFile
  /\ earg = NoEngine
  /\ epc = "idle"
  /\ eret = "none"
  /\ edone = {}

EngineCall ==
  /\ epc = "idle"
  /\ \E e \in EngineArgs : earg' = e
  /\ epc' = "check"
  /\ eret' = "none"
  /\ edone' = {}
  /\ UNCHANGED <<emarker, edist, eroot, eddir, edl>>
  /\ UNCHANGED <<svars, rvars>>

\* if p.marker.exists() && p.dist.exists() { return Ok(p.dist.clone()); }
EngineCheck ==
  /\ epc = "check"
  /\ IF emarker.exists /\ edist.state # "absent"
       THEN epc' = "idle" /\ eret' = "dist"
       ELSE epc' = "mkdirs" /\ eret' = eret
  /\ UNCHANGED <<emarker, edist, eroot, eddir, edl, earg, edone>>
  /\ UNCHANGED <<svars, rvars>>

EngineFail ==
  /\ epc' = "idle"
  /\ eret' = "err"

MadeDist == IF edist.state = "absent" THEN [state |-> "empty", content |-> "none"] ELSE edist

\* create_dir_all of root, dist and downloads_dir, each of which may fail
EngineMkdirs ==
  /\ epc = "mkdirs"
  /\ \/ EngineFail /\ UNCHANGED <<eroot, edist, eddir>>
     \/ EngineFail /\ eroot' = TRUE /\ UNCHANGED <<edist, eddir>>
     \/ EngineFail /\ eroot' = TRUE /\ edist' = MadeDist /\ UNCHANGED eddir
     \/ /\ eroot' = TRUE
        /\ edist' = MadeDist
        /\ eddir' = TRUE
        /\ epc' = "kind"
        /\ eret' = eret
  /\ UNCHANGED <<emarker, edl, earg, edone>>
  /\ UNCHANGED <<svars, rvars>>

EngineKind ==
  /\ epc = "kind"
  /\ IF earg.kind # "url"
       THEN EngineFail
       ELSE epc' = "download" /\ eret' = eret
  /\ UNCHANGED <<emarker, edist, eroot, eddir, edl, earg, edone>>
  /\ UNCHANGED <<svars, rvars>>

\* download_to_file: the request, File::create(dest), then the copy loop
EngineDownload ==
  /\ epc = "download"
  /\ \/ /\ EngineFail
        /\ UNCHANGED <<edl, edone>>
     \/ /\ earg.serves # "error"
        /\ EngineFail
        /\ edl' = [exists |-> TRUE, content |-> Truncated]
        /\ UNCHANGED edone
     \/ /\ earg.serves # "error"
        /\ edl' = [exists |-> TRUE, content |-> earg.serves]
        /\ edone' = edone \cup {"download"}
        /\ epc' = "verify"
        /\ eret' = eret
  /\ UNCHANGED <<emarker, edist, eroot, eddir, earg>>
  /\ UNCHANGED <<svars, rvars>>

\* verify_sha256: open and hash the file, compare lower-cased hex strings
EngineVerify ==
  /\ epc = "verify"
  /\ \/ /\ EngineFail
        /\ UNCHANGED edone
     \/ /\ edl.exists
        /\ IF HashMatches(Sha256(edl.content), earg.sha256)
             THEN epc' = "extract" /\ eret' = eret /\ edone' = edone \cup {"verify"}
             ELSE EngineFail /\ UNCHANGED edone
  /\ UNCHANGED <<emarker, edist, eroot, eddir, edl, earg>>
  /\ UNCHANGED <<svars, rvars>>

\* extract_tar_gz: open the archive and unpack it into dist
EngineExtract ==
  /\ epc = "extract"
  /\ \/ /\ EngineFail
        /\ UNCHANGED <<edist, edone>>
     \/ /\ EngineFail
        /\ edist' = [state |-> "partial", content |-> "none"]
        /\ UNCHANGED edone
     \/ /\ edl.exists
        /\ edist' = [state |-> "full", content |-> edl.content]
        /\ edone' = edone \cup {"extract"}
        /\ epc' = "marker"
        /\ eret' = eret
  /\ UNCHANGED <<emarker, eroot, eddir, edl, earg>>
  /\ UNCHANGED <<svars, rvars>>

\* std::fs::write(&p.marker, ...): creates the file, then writes the JSON
EngineMarker ==
  /\ epc = "marker"
  /\ \/ /\ EngineFail
        /\ UNCHANGED emarker
     \/ /\ EngineFail
        /\ emarker' = [exists |-> TRUE, sha |-> NoHex]
     \/ /\ emarker' = [exists |-> TRUE, sha |-> earg.sha256]
        /\ epc' = "idle"
        /\ eret' = "dist"
  /\ UNCHANGED <<edist, eroot, eddir, edl, earg, edone>>
  /\ UNCHANGED <<svars, rvars>>

\* ------------------------------------------------------ source file system
\* st_mode permission bits, file bytes and link text of an inode
ModeOf(k, i) ==
  IF k = "symlink" THEN 511
  ELSE IF k = "dir" THEN (IF i % 2 = 0 THEN 493 ELSE 448)
  ELSE (IF i % 2 = 0 THEN 420 ELSE 384)
ContentOf(i) == i
TargetOf(i) == IF i % 2 = 0 THEN "a" ELSE ".."

Child(E, d, n) ==
  IF \E t \in E : t[1] = d /\ t[2] = n
  THEN (CHOOSE t \in E : t[1] = d /\ t[2] = n)[3]
  ELSE 0

\* the inode a path names, 0 when a component is missing
RECURSIVE Resolve(_, _, _)
Resolve(E, i, p) ==
  IF i = 0 \/ p = <<>> THEN i
  ELSE Resolve(E, Child(E, i, Head(p)), Tail(p))

NamesIn(E, d) == {t[2] : t \in {u \in E : u[1] = d}}

\* every order in which read_dir may yield the names of a directory
Orders(S) ==
  {s \in [1..Cardinality(S) -> S] : \A i, j \in 1..Cardinality(S) : s[i] = s[j] => i = j}

RECURSIVE KSubsets(_, _)
KSubsets(S, k) ==
  IF k = 0 THEN {{}}
  ELSE LET R == KSubsets(S, k - 1) IN R \cup {r \cup {x} : r \in R, x \in S}

\* ------------------------------------------------------------- the archive
EmptyDisk == <<>>
Absent == [exists |-> FALSE, entries |-> <<>>, tarEnd |-> FALSE, finished |-> FALSE]
NoCur == [src |-> <<>>, tar |-> <<>>, ino |-> 0, kind |-> "none"]

DirEntry(tp, i) ==
  [path |-> tp, kind |-> "dir", data |-> 0, target |-> "", mode |-> ModeOf("dir", i)]
FileEntry(tp, i) ==
  [path |-> tp, kind |-> "file", data |-> ContentOf(i), target |-> "", mode |-> ModeOf("file", i)]
LinkEntry(tp, i) ==
  [path |-> tp, kind |-> "symlink", data |-> 0, target |-> TargetOf(i), mode |-> 0]

\* let child_tar = tar_path.join(entry.file_name());
ChildTarFlat(tp, n) == <<n>>
ChildTar(tp, n) == Append(tp, n)

\* builder.append_*: the entry goes to the end of the stream
EmitFirst(e) == store' = [store EXCEPT !.entries = <<e>> \o @]
Emit(e) == store' = [store EXCEPT !.entries = Append(@, e)]

\* File::create: the file exists and is empty, whatever it held
CreatedKeeping(f) ==
  [exists |-> TRUE, entries |-> f.entries, tarEnd |-> FALSE, finished |-> FALSE]
Created(f) ==
  [exists |-> TRUE, entries |-> <<>>, tarEnd |-> FALSE, finished |-> FALSE]

\* visited_inodes after the guard: insert runs for a directory only
VisitAll(k, i, v) == v \cup {i}
Visit(k, i, v) == IF k = "dir" THEN v \cup {i} ELSE v

\* metadata.is_dir() && !visited.insert(inode)
NeverVisited(k, i, v) == FALSE
AlreadyVisited(k, i, v) == k = "dir" /\ i \in v

\* File::open(src_path) is an Err
OpenFailsNever(E, p, i, nr) == Resolve(E, Root, p) = 0
OpenFails(E, p, i, nr) == Resolve(E, Root, p) = 0 \/ i \in nr

\* ---------------------------------------------------------- initial states
\* nothing exists at the path prefix_dir
NoSource == [i \in Inodes |-> "none"]
\* fs::symlink_metadata(src_path): the inode, 0 for an Err
\* (fs::metadata would follow a link to what its text names)
StatFollowing(E, p) ==
  LET i == Resolve(E, Root, p)
  IN IF kind = NoSource THEN 0
     ELSE IF i # 0 /\ kind[i] = "symlink"
     THEN IF TargetOf(i) = ".."
          THEN (IF Len(p) >= 2 THEN Resolve(E, Root, SubSeq(p, 1, Len(p) - 2)) ELSE 0)
          ELSE Resolve(E, Root, Append(SubSeq(p, 1, Len(p) - 1), TargetOf(i)))
     ELSE i
Stat(E, p) == IF kind = NoSource THEN 0 ELSE Resolve(E, Root, p)

\* Every tree over the inodes 1..MaxInode in which each inode has a first link
\* from a lower-numbered directory, plus at most one further hard link (to any
\* inode: a directory linked to itself, to an ancestor or twice, a file linked
\* twice).
SourceInit ==
  /\ \/ /\ kind \in [Inodes -> Kinds]
        /\ kind[Root] = "dir"
        /\ \E par \in [2..MaxInode -> Inodes], nm \in [2..MaxInode -> Names] :
             /\ \A i \in 2..MaxInode : par[i] < i /\ kind[par[i]] = "dir"
             /\ \A i, j \in 2..MaxInode : (par[i] = par[j] /\ nm[i] = nm[j]) => i = j
             /\ \E extra \in {{}} \cup {{<<d, n, c>>} : d \in Inodes, n \in Names, c \in Inodes} :
                  /\ \A t \in extra :
                       /\ kind[t[1]] = "dir"
                       /\ \A i \in 2..MaxInode : ~(par[i] = t[1] /\ nm[i] = t[2])
                  /\ ents = {<<par[i], nm[i], i>> : i \in 2..MaxInode} \cup extra
        /\ noread \in KSubsets({i \in Inodes : kind[i] = "file"}, MaxUnreadable)
     \/ /\ kind = NoSource
        /\ ents = {}
        /\ noread = {}
  /\ envops = 0

SnapIdle ==
  /\ sdir = FALSE
  /\ spc = "idle"
  /\ stack = <<>>
  /\ cur = NoCur
  /\ visited = {}
  /\ sret = "none"
  /\ quiet = TRUE
  /\ over = FALSE
  /\ sout = NoPath
  /\ slog = {}

\* ------------------------------------------------------------ environment
\* another process unlinks a directory entry of the live source tree
EnvUnlink ==
  /\ spc \in {"walk", "done"}
  /\ envops < MaxEnvOps
  /\ \E t \in ents :
       /\ ents' = ents \ {t}
       /\ envops' = envops + 1
       /\ quiet' = FALSE
  /\ UNCHANGED <<kind, noread, store, sdir, spc, stack, cur, visited, sret, over>>
  /\ UNCHANGED <<sarg, sout, slog>>
  /\ UNCHANGED <<rvars, evars>>

\* --------------------------------------------------------- snapshot_prefix
SnapshotCall ==
  /\ spc \in {"idle", "done"}
  /\ rpc = "idle" /\ disk = EmptyDisk
  /\ spc' = "mkdir"
  /\ sret' = "none"
  /\ quiet' = TRUE
  /\ over' = FALSE
  /\ stack' = <<>>
  /\ cur' = NoCur
  /\ visited' = {}
  /\ UNCHANGED <<kind, ents, noread, envops, store, sdir>>
  /\ UNCHANGED <<sarg, sout, slog>>
  /\ UNCHANGED <<rvars, evars>>

\* an Err(..) leaving snapshot_prefix through a `?`; why names the failed call
SnapFailOn(why) ==
  /\ spc' = "walk"
  /\ sret' = why
  /\ stack' = <<[src |-> <<>>, tar |-> <<RootName>>]>>
  /\ cur' = NoCur
SnapFail(why) ==
  /\ spc' = "done"
  /\ sret' = why
  /\ stack' = <<>>
  /\ cur' = NoCur

\* fs::create_dir_all(snapshots_dir)?
SnapMkdir ==
  /\ spc = "mkdir"
  /\ \/ /\ sdir' = TRUE
        /\ IF sarg.inside /\ ~sdir
           THEN /\ kind' = kind @@ (SDirIno :> "dir")
                /\ ents' = ents \cup {<<Root, SDirName, SDirIno>>}
           ELSE UNCHANGED <<kind, ents>>
        /\ spc' = "create"
        /\ UNCHANGED <<sret, stack, cur>>
     \/ /\ sdir = FALSE
        /\ SnapFail("create_dir_all")
        /\ UNCHANGED <<sdir, kind, ents>>
  /\ UNCHANGED <<noread, envops, store, visited, quiet, over, sarg, sout, slog>>
  /\ UNCHANGED <<rvars, evars>>

\* let out_path = snapshots_dir.join(format!(..)); File::create(&out_path)?
\* zstd::Encoder::new  tar::Builder::new  and the first call of
\* append_dir_recursive(prefix_dir, "prefix")
SnapCreate ==
  /\ spc = "create"
  /\ sout' = OutPath(sarg)
  /\ \/ /\ store' = Created(store)
        /\ IF OutInSource(sarg) /\ ~store.exists
           THEN /\ kind' = kind @@ (OutIno :> "file")
                /\ ents' = ents \cup {<<SDirIno, OutName, OutIno>>}
           ELSE UNCHANGED <<kind, ents>>
        /\ visited' = {}
        /\ stack' = <<[src |-> <<>>, tar |-> <<RootName>>]>>
        /\ spc' = "walk"
        /\ over' = \E k \in 1..Len(store.entries) :
                     Resolve(ents, Root, Tail(store.entries[k].path)) = 0
        /\ UNCHANGED <<sret, cur>>
     \/ /\ SnapFail("create")
        /\ UNCHANGED <<store, visited, over, kind, ents>>
  /\ UNCHANGED <<noread, envops, sdir, quiet, sarg, slog>>
  /\ UNCHANGED <<rvars, evars>>

\* let metadata = fs::symlink_metadata(src_path)?; and the visited-inode guard
WalkStat ==
  /\ spc = "walk"
  /\ cur = NoCur
  /\ stack # <<>>
  /\ LET it == Head(stack)
         i == Stat(ents, it.src)
     IN IF i = 0
        THEN /\ SnapFail(IF it.src = <<>> THEN "stat_root" ELSE "stat_entry")
             /\ UNCHANGED visited
        ELSE IF AlreadyVisited(kind[i], i, visited)
        THEN /\ stack' = Tail(stack)
             /\ UNCHANGED <<spc, sret, cur, visited>>
        ELSE /\ stack' = Tail(stack)
             /\ cur' = [src |-> it.src, tar |-> it.tar, ino |-> i, kind |-> kind[i]]
             /\ visited' = Visit(kind[i], i, visited)
             /\ UNCHANGED <<spc, sret>>
  /\ UNCHANGED <<kind, ents, noread, envops, store, sdir, quiet, over>>
  /\ UNCHANGED <<sarg, sout, slog>>
  /\ UNCHANGED <<rvars, evars>>

\* if metadata.is_symlink(): read_link(src_path)?, append_link(..).ok()
WalkSymlink ==
  /\ spc = "walk"
  /\ cur.kind = "symlink"
  /\ IF Resolve(ents, Root, cur.src) = 0
     THEN /\ SnapFail("read_link")
          /\ UNCHANGED store
     ELSE /\ Emit(LinkEntry(cur.tar, cur.ino))
          /\ cur' = NoCur
          /\ UNCHANGED <<spc, sret, stack>>
  /\ UNCHANGED <<kind, ents, noread, envops, sdir, visited, quiet, over>>
  /\ UNCHANGED <<sarg, sout, slog>>
  /\ UNCHANGED <<rvars, evars>>

\* else if metadata.is_dir(): append_dir(..).ok(); if let Ok(entries) =
\* read_dir(src_path) { for entry in entries.flatten() { recurse(..)? } }
WalkDir ==
  /\ spc = "walk"
  /\ cur.kind = "dir"
  /\ IF Resolve(ents, Root, cur.src) = 0
     THEN /\ cur' = NoCur
          /\ UNCHANGED <<store, stack>>
     ELSE /\ Emit(DirEntry(cur.tar, cur.ino))
          /\ \E ord \in Orders(NamesIn(ents, cur.ino)) :
               stack' = [k \in 1..Len(ord) |->
                           [src |-> Append(cur.src, ord[k]), tar |-> ChildTar(cur.tar, ord[k])]]
                        \o stack
          /\ cur' = NoCur
  /\ UNCHANGED <<kind, ents, noread, envops, sdir, spc, visited, sret, quiet, over>>
  /\ UNCHANGED <<sarg, sout, slog>>
  /\ UNCHANGED <<rvars, evars>>

\* else if metadata.is_file(): if let Ok(file) = File::open(src_path) {
\* append_data(..).ok() }
WalkFile ==
  /\ spc = "walk"
  /\ cur.kind = "file"
  /\ IF OpenFails(ents, cur.src, cur.ino, noread)
     THEN UNCHANGED store
     ELSE Emit(FileEntry(cur.tar, cur.ino))
  /\ cur' = NoCur
  /\ UNCHANGED <<kind, ents, noread, envops, sdir, spc, stack, visited, sret, quiet, over>>
  /\ UNCHANGED <<sarg, sout, slog>>
  /\ UNCHANGED <<rvars, evars>>

\* tar_builder.into_inner().context("finish tar")?
SnapFinishTar ==
  /\ spc = "walk"
  /\ cur = NoCur
  /\ stack = <<>>
  /\ \/ /\ store' = [store EXCEPT !.tarEnd = TRUE]
        /\ spc' = "zstd"
        /\ UNCHANGED <<sret, stack, cur>>
     \/ /\ SnapFail("finish_tar")
        /\ UNCHANGED store
  /\ UNCHANGED <<kind, ents, noread, envops, sdir, visited, quiet, over>>
  /\ UNCHANGED <<sarg, sout, slog>>
  /\ UNCHANGED <<rvars, evars>>

\* encoder.finish().context("finish zstd")?;  Ok(out_path)
SnapFinishZstd ==
  /\ spc = "zstd"
  /\ \/ /\ store' = [store EXCEPT !.finished = TRUE]
        /\ spc' = "done"
        /\ sret' = "ok"
        /\ UNCHANGED <<stack, cur>>
     \/ /\ SnapFail("finish_zstd")
        /\ UNCHANGED store
  /\ UNCHANGED <<kind, ents, noread, envops, sdir, visited, quiet, over>>
  /\ UNCHANGED <<sarg, sout, slog>>
  /\ UNCHANGED <<rvars, evars>>

SnapStep ==
  \/ SnapshotCall
  \/ SnapMkdir
  \/ SnapCreate
  \/ WalkStat
  \/ WalkSymlink
  \/ WalkDir
  \/ WalkFile
  \/ SnapFinishTar
  \/ SnapFinishZstd

\* ------------------------------------------------------ destination side
MaxEntries == 2      \* entries of an archive handed to restore_prefix directly

Dests == {"dest", RootName}
NoTree == [valid |-> FALSE, tree |-> <<>>]

DirNode(m) == [kind |-> "dir", data |-> 0, target |-> "", mode |-> m]
FileNode(c, m) == [kind |-> "file", data |-> c, target |-> "", mode |-> m]
LinkNode(t) == [kind |-> "symlink", data |-> 0, target |-> t, mode |-> 511]

Exists(d, p) == p \in DOMAIN d
Under(r, p) == Len(r) <= Len(p) /\ SubSeq(p, 1, Len(r)) = r
Merge(d, e) == [p \in DOMAIN d \cup DOMAIN e |-> IF p \in DOMAIN e THEN e[p] ELSE d[p]]

\* fs::remove_dir_all(p)
RemoveNone(d, p) == d
RemoveAll(d, p) == [q \in {x \in DOMAIN d : ~Under(p, x)} |-> d[q]]
\* fs::create_dir_all(p) for a one-component p
CreateDirAll(d, p) == IF Exists(d, p) THEN d ELSE Merge(d, [q \in {p} |-> DirNode(493)])
\* fs::rename(from, to), to being absent
Rename(d, from, to) ==
  LET moved == {x \in DOMAIN d : Under(from, x)}
      kept == DOMAIN d \ moved
      new(x) == to \o SubSeq(x, Len(from) + 1, Len(x))
  IN [q \in kept \cup {new(x) : x \in moved} |->
        IF q \in kept THEN d[q]
        ELSE d[CHOOSE x \in moved : new(x) = q]]

\* the tree below r, by relative path
SubTree(d, r) ==
  [q \in {SubSeq(x, Len(r) + 1, Len(x)) : x \in {y \in DOMAIN d : Under(r, y)}} |-> d[r \o q]]

\* tar::Archive::unpack of one entry below the parent directory
Ancestors(p) == {SubSeq(p, 1, k) : k \in 1..(Len(p) - 1)}
UnpackConflict(d, e) ==
  \/ \E q \in Ancestors(e.path) : Exists(d, q) /\ d[q].kind # "dir"
  \/ Exists(d, e.path) /\ ((d[e.path].kind = "dir") # (e.kind = "dir"))
NodeOf(e) ==
  IF e.kind = "dir" THEN DirNode(e.mode % 512)
  ELSE IF e.kind = "file" THEN FileNode(e.data, e.mode % 512)
  ELSE LinkNode(e.target)
UnpackEntry(d, e) ==
  LET missing == {q \in Ancestors(e.path) : ~Exists(d, q)}
  IN Merge(Merge(d, [q \in missing |-> DirNode(493)]), [q \in {e.path} |-> NodeOf(e)])

\* what other programs and earlier runs may have left in the parent directory
OldConfigs ==
  { EmptyDisk,
    (<<"dest">> :> DirNode(493)) @@ (<<"dest", "z">> :> FileNode(-1, 420))
      @@ (<<"dest", "a">> :> FileNode(-1, 420)) }
StaleConfigs ==
  { EmptyDisk,
    (<<RootName>> :> DirNode(493)) @@ (<<RootName, "z">> :> FileNode(-2, 420)),
    (<<RootName>> :> DirNode(493)) @@ (<<RootName, "a">> :> DirNode(493)) }
DiskConfigs == {Merge(o, t) : o \in OldConfigs, t \in StaleConfigs}

NoPeer == [dest |-> "none", pc |-> "idle", pos |-> 0, ret |-> "none", store |-> Absent]

RestoreIdle ==
  /\ disk = EmptyDisk
  /\ dest = "dest"
  /\ rpc = "idle"
  /\ rpos = 0
  /\ rret = "none"
  /\ pre = EmptyDisk
  /\ last = NoTree
  /\ peer = NoPeer

\* --------------------------------------------------------- restore_prefix
EnvPrepare ==
  /\ rpc = "idle"
  /\ spc = "idle" \/ (spc = "done" /\ sret = "ok")
  /\ disk = EmptyDisk
  /\ disk' \in DiskConfigs \ {EmptyDisk}
  /\ UNCHANGED <<dest, rpc, rpos, rret, pre, last>>
  /\ UNCHANGED peer
  /\ UNCHANGED <<svars, evars>>

\* restore_prefix(archive, prefix_dir) on an archive file handed over as it is
RestoreCall ==
  /\ rpc = "idle"
  /\ spc = "idle"
  /\ dest' \in Dests
  /\ rpc' = "remove"
  /\ rpos' = 0
  /\ pre' = disk
  /\ UNCHANGED <<disk, rret, last>>
  /\ UNCHANGED peer
  /\ UNCHANGED <<svars, evars>>

\* restore_prefix(out_path, prefix_dir) on the path snapshot_prefix returned
RestoreSnapshot ==
  /\ rpc = "idle"
  /\ spc = "done" /\ sret = "ok"
  /\ dest' \in Dests
  /\ rpc' = "remove"
  /\ rpos' = 0
  /\ pre' = disk
  /\ UNCHANGED <<disk, rret, last>>
  /\ UNCHANGED peer
  /\ UNCHANGED <<svars, evars>>

\* the same call once more
RestoreAgain ==
  /\ rpc = "done"
  /\ rpc' = "remove"
  /\ rpos' = 0
  /\ rret' = "none"
  /\ pre' = disk
  /\ last' = IF rret = "ok" THEN [valid |-> TRUE, tree |-> SubTree(disk, <<dest>>)] ELSE NoTree
  /\ UNCHANGED <<disk, dest>>
  /\ UNCHANGED peer
  /\ UNCHANGED <<svars, evars>>

\* an Err(..) leaving restore_prefix through a `?`
RestoreFailOn(why) ==
  /\ rpc' = "move"
  /\ rret' = why
RestoreFail(why) ==
  /\ rpc' = "done"
  /\ rret' = why

\* if prefix_dir.exists() { fs::remove_dir_all(prefix_dir)? }
RestoreRemove ==
  /\ rpc = "remove"
  /\ \/ /\ disk' = RemoveAll(disk, <<dest>>)
        /\ rpc' = "mkdir"
        /\ UNCHANGED rret
     \/ /\ Exists(disk, <<dest>>)
        /\ RestoreFail("remove")
        /\ UNCHANGED disk
  /\ UNCHANGED <<dest, rpos, pre, last>>
  /\ UNCHANGED peer
  /\ UNCHANGED <<svars, evars>>

\* fs::create_dir_all(prefix_dir)?
RestoreMkdir ==
  /\ rpc = "mkdir"
  /\ \/ /\ disk' = CreateDirAll(disk, <<dest>>)
        /\ rpc' = "open"
        /\ UNCHANGED rret
     \/ /\ RestoreFail("create")
        /\ UNCHANGED disk
  /\ UNCHANGED <<dest, rpos, pre, last>>
  /\ UNCHANGED peer
  /\ UNCHANGED <<svars, evars>>

\* fs::File::open(snapshot_tar_zst)?  zstd::Decoder::new  tar::Archive::new
RestoreOpen ==
  /\ rpc = "open"
  /\ IF store.exists
     THEN /\ rpc' = "unpack"
          /\ rpos' = 1
          /\ UNCHANGED rret
     ELSE /\ RestoreFail("open")
          /\ UNCHANGED rpos
  /\ UNCHANGED <<disk, dest, pre, last>>
  /\ UNCHANGED peer
  /\ UNCHANGED <<svars, evars>>

\* archive.unpack(parent)?: one entry, or the end of the stream
RestoreUnpack ==
  /\ rpc = "unpack"
  /\ \/ /\ rpos <= Len(store.entries)
        /\ ~UnpackConflict(disk, store.entries[rpos])
        /\ disk' = UnpackEntry(disk, store.entries[rpos])
        /\ rpos' = rpos + 1
        /\ UNCHANGED <<rpc, rret>>
     \/ /\ rpos <= Len(store.entries)
        /\ UnpackConflict(disk, store.entries[rpos])
        /\ RestoreFail("untar_exists")
        /\ UNCHANGED <<disk, rpos>>
     \/ /\ rpos <= Len(store.entries)
        /\ RestoreFail("untar_io")
        /\ UNCHANGED <<disk, rpos>>
     \/ /\ rpos > Len(store.entries)
        /\ ~store.finished
        /\ RestoreFail("untar_eof")
        /\ UNCHANGED <<disk, rpos>>
     \/ /\ rpos > Len(store.entries)
        /\ store.finished
        /\ rpc' = "move"
        /\ UNCHANGED <<disk, rpos, rret>>
  /\ UNCHANGED <<dest, pre, last>>
  /\ UNCHANGED peer
  /\ UNCHANGED <<svars, evars>>

\* if extracted.exists() && extracted != prefix_dir {
\*   if prefix_dir.exists() { fs::remove_dir_all(prefix_dir)? }
RestoreMove ==
  /\ rpc = "move"
  /\ IF Exists(disk, <<RootName>>) /\ <<RootName>> # <<dest>>
     THEN \/ /\ disk' = RemoveAll(disk, <<dest>>)
             /\ rpc' = "rename"
             /\ UNCHANGED rret
          \/ /\ Exists(disk, <<dest>>)
             /\ RestoreFail("remove2")
             /\ UNCHANGED disk
     ELSE /\ rpc' = "done"
          /\ rret' = "ok"
          /\ UNCHANGED disk
  /\ UNCHANGED <<dest, rpos, pre, last>>
  /\ UNCHANGED peer
  /\ UNCHANGED <<svars, evars>>

\*   fs::rename(extracted, prefix_dir)? }  Ok(())
RestoreRename ==
  /\ rpc = "rename"
  /\ \/ /\ Exists(disk, <<RootName>>)
        /\ disk' = Rename(disk, <<RootName>>, <<dest>>)
        /\ rpc' = "done"
        /\ rret' = "ok"
     \/ /\ RestoreFail("rename")
        /\ UNCHANGED disk
  /\ UNCHANGED <<dest, rpos, pre, last>>
  /\ UNCHANGED peer
  /\ UNCHANGED <<svars, evars>>

RestoreStep ==
  \/ RestoreRemove
  \/ RestoreMkdir
  \/ RestoreOpen
  \/ RestoreUnpack
  \/ RestoreMove
  \/ RestoreRename

\* ------------------------------- a second restore_prefix call, same parent
\* The same statements of restore_prefix, run by another caller on its own
\* archive (peer.store) and its own prefix_dir (peer.dest), on the same disk.
PeerDest == "d2"
PeerGoes(pc) == peer' = [peer EXCEPT !.pc = pc]
PeerFails(why) == peer' = [peer EXCEPT !.pc = "done", !.ret = why]

PeerRemove ==
  /\ peer.pc = "remove"
  /\ \/ /\ disk' = RemoveAll(disk, <<peer.dest>>)
        /\ PeerGoes("mkdir")
     \/ /\ Exists(disk, <<peer.dest>>)
        /\ PeerFails("remove")
        /\ UNCHANGED disk
  /\ UNCHANGED <<dest, rpc, rpos, rret, pre, last>>
  /\ UNCHANGED <<svars, evars>>

PeerMkdir ==
  /\ peer.pc = "mkdir"
  /\ \/ /\ disk' = CreateDirAll(disk, <<peer.dest>>)
        /\ PeerGoes("open")
     \/ /\ PeerFails("create")
        /\ UNCHANGED disk
  /\ UNCHANGED <<dest, rpc, rpos, rret, pre, last>>
  /\ UNCHANGED <<svars, evars>>

PeerOpen ==
  /\ peer.pc = "open"
  /\ IF peer.store.exists
     THEN peer' = [peer EXCEPT !.pc = "unpack", !.pos = 1]
     ELSE PeerFails("open")
  /\ UNCHANGED <<disk, dest, rpc, rpos, rret, pre, last>>
  /\ UNCHANGED <<svars, evars>>

PeerUnpack ==
  /\ peer.pc = "unpack"
  /\ \/ /\ peer.pos <= Len(peer.store.entries)
        /\ ~UnpackConflict(disk, peer.store.entries[peer.pos])
        /\ disk' = UnpackEntry(disk, peer.store.entries[peer.pos])
        /\ peer' = [peer EXCEPT !.pos = @ + 1]
     \/ /\ peer.pos <= Len(peer.store.entries)
        /\ UnpackConflict(disk, peer.store.entries[peer.pos])
        /\ PeerFails("untar_exists")
        /\ UNCHANGED disk
     \/ /\ peer.pos <= Len(peer.store.entries)
        /\ PeerFails("untar_io")
        /\ UNCHANGED disk
     \/ /\ peer.pos > Len(peer.store.entries)
        /\ ~peer.store.finished
        /\ PeerFails("untar_eof")
        /\ UNCHANGED disk
     \/ /\ peer.pos > Len(peer.store.entries)
        /\ peer.store.finished
        /\ PeerGoes("move")
        /\ UNCHANGED disk
  /\ UNCHANGED <<dest, rpc, rpos, rret, pre, last>>
  /\ UNCHANGED <<svars, evars>>

PeerMove ==
  /\ peer.pc = "move"
  /\ IF Exists(disk, <<RootName>>) /\ <<RootName>> # <<peer.dest>>
     THEN \/ /\ disk' = RemoveAll(disk, <<peer.dest>>)
             /\ PeerGoes("rename")
          \/ /\ Exists(disk, <<peer.dest>>)
             /\ PeerFails("remove2")
             /\ UNCHANGED disk
     ELSE /\ peer' = [peer EXCEPT !.pc = "done", !.ret = "ok"]
          /\ UNCHANGED disk
  /\ UNCHANGED <<dest, rpc, rpos, rret, pre, last>>
  /\ UNCHANGED <<svars, evars>>

PeerRename ==
  /\ peer.pc = "rename"
  /\ \/ /\ Exists(disk, <<RootName>>)
        /\ disk' = Rename(disk, <<RootName>>, <<peer.dest>>)
        /\ peer' = [peer EXCEPT !.pc = "done", !.ret = "ok"]
     \/ /\ PeerFails("rename")
        /\ UNCHANGED disk
  /\ UNCHANGED <<dest, rpc, rpos, rret, pre, last>>
  /\ UNCHANGED <<svars, evars>>

PeerStep ==
  \/ PeerRemove
  \/ PeerMkdir
  \/ PeerOpen
  \/ PeerUnpack
  \/ PeerMove
  \/ PeerRename

\* two calls under way at the same time, each with a complete archive
ArchiveA ==
  [exists |-> TRUE, tarEnd |-> TRUE, finished |-> TRUE,
   entries |-> << [path |-> <<RootName>>, kind |-> "dir", data |-> 0, target |-> "", mode |-> 448],
                  [path |-> <<RootName, "a">>, kind |-> "file", data |-> 2, target |-> "", mode |-> 420] >>]
ArchiveB ==
  [exists |-> TRUE, tarEnd |-> TRUE, finished |-> TRUE,
   entries |-> << [path |-> <<RootName>>, kind |-> "dir", data |-> 0, target |-> "", mode |-> 493],
                  [path |-> <<RootName, "b">>, kind |-> "symlink", data |-> 0, target |-> "a", mode |-> 0] >>]
ConcInit ==
  /\ kind = [i \in Inodes |-> "dir"]
  /\ ents = {}
  /\ noread = {}
  /\ envops = 0
  /\ SnapIdle
  /\ sarg = DefaultArgs
  /\ store \in {ArchiveA, ArchiveB}
  /\ disk \in OldConfigs
  /\ dest = "dest"
  /\ rpc = "remove"
  /\ rpos = 0
  /\ rret = "none"
  /\ pre = disk
  /\ last = NoTree
  /\ peer \in {[dest |-> PeerDest, pc |-> "remove", pos |-> 0, ret |-> "none", store |-> a] :
                  a \in {ArchiveA, ArchiveB}}
  /\ EngineIdle
ConcNext == RestoreStep \/ PeerStep
SpecConc == ConcInit /\ [][ConcNext]_vars

\* repeated calls of ensure_engine_installed on one engines_dir
EngineInit ==
  /\ kind = [i \in Inodes |-> "dir"]
  /\ ents = {}
  /\ noread = {}
  /\ envops = 0
  /\ SnapIdle
  /\ sarg = DefaultArgs
  /\ store = Absent
  /\ RestoreIdle
  /\ EngineIdle
EngineNext ==
  \/ EngineCall
  \/ EngineCheck
  \/ EngineMkdirs
  \/ EngineKind
  \/ EngineDownload
  \/ EngineVerify
  \/ EngineExtract
  \/ EngineMarker
SpecEngine == EngineInit /\ [][EngineNext]_vars

\* archives handed to restore_prefix directly: every sequence of at most
\* MaxEntries entries, complete or cut off
EntryUniverse ==
  { [path |-> <<RootName>>, kind |-> "dir", data |-> 0, target |-> "", mode |-> 448],
    [path |-> <<RootName, "a">>, kind |-> "dir", data |-> 0, target |-> "", mode |-> 493],
    [path |-> <<RootName, "a">>, kind |-> "file", data |-> 2, target |-> "", mode |-> 420],
    [path |-> <<RootName, "b">>, kind |-> "symlink", data |-> 0, target |-> "a", mode |-> 0],
    [path |-> <<RootName, "a", "b">>, kind |-> "file", data |-> 3, target |-> "", mode |-> 384],
    [path |-> <<"other", "a">>, kind |-> "file", data |-> 4, target |-> "", mode |-> 420] }
Archives ==
  {Absent} \cup
  { [exists |-> TRUE, entries |-> es, tarEnd |-> fin, finished |-> fin] :
      es \in UNION {[1..n -> EntryUniverse] : n \in 0..MaxEntries}, fin \in BOOLEAN }

\* the source tree plays no part when an archive is handed over directly
RestoreInit ==
  /\ kind = [i \in Inodes |-> "dir"]
  /\ ents = {}
  /\ noread = {}
  /\ envops = 0
  /\ SnapIdle
  /\ sarg = DefaultArgs
  /\ store \in Archives
  /\ RestoreIdle
  /\ EngineIdle
RestoreNext == RestoreCall \/ RestoreStep \/ RestoreAgain \/ EnvPrepare
SpecRestore == RestoreInit /\ [][RestoreNext]_vars

\* ------------------------------------------- snapshot, then restore of it
Init == SourceInit /\ SnapIdle /\ sarg = DefaultArgs /\ store = Absent /\ RestoreIdle /\ EngineIdle
Next == SnapStep \/ EnvPrepare \/ RestoreSnapshot \/ RestoreStep
Spec == Init /\ [][Next]_vars

SnapInit == SourceInit /\ SnapIdle /\ sarg = DefaultArgs /\ store = Absent /\ RestoreIdle /\ EngineIdle
SnapNext == SnapStep \/ EnvUnlink
SpecSnap == SnapInit /\ [][SnapNext]_vars

\* snapshot_prefix with every choice of snapshots_dir and snapshot_name
ArgsInit ==
  /\ SourceInit /\ SnapIdle /\ store = Absent /\ RestoreIdle /\ EngineIdle
  /\ sarg \in SnapArgs
  /\ kind = NoSource => ~sarg.inside
SpecSnapArgs == ArgsInit /\ [][SnapStep]_vars

\* the steps of a running call; the call is synchronous and keeps running
SnapRun ==
  \/ SnapMkdir
  \/ SnapCreate
  \/ WalkStat
  \/ WalkSymlink
  \/ WalkDir
  \/ WalkFile
  \/ SnapFinishTar
  \/ SnapFinishZstd
SpecSnapLive ==
  SnapInit /\ [][SnapStep]_vars /\ WF_vars(SnapRun)

\* ------------------------------------------------- reading the source tree
Paths == UNION {[1..k -> Names] : k \in 0..MaxInode}
TreePaths(E) == {p \in Paths : Resolve(E, Root, p) # 0}
Reach(E) == {Resolve(E, Root, p) : p \in TreePaths(E)}
\* no directory is reachable by two paths
DirAliasFree(E) ==
  LET R == Reach(E)
      L == {t \in E : t[1] \in R /\ kind[t[3]] = "dir"}
  IN \A t, u \in L : t[3] = u[3] => (t = u /\ t[3] # Root)

EntryPaths(es) == {es[k].path : k \in 1..Len(es)}
EntryIno(e) == Resolve(ents, Root, Tail(e.path))
NoDuplicatePath(es) == \A j, k \in 1..Len(es) : es[j].path = es[k].path => j = k
\* the walk of the last call ran to its end
WalkEnded == spc = "zstd" \/ (spc = "done" /\ sret \in {"ok", "finish_tar", "finish_zstd"})
Succeeded == spc = "done" /\ sret = "ok"

\* C5: a node other than the root that vanishes between the enumeration of its
\* parent and the read of its metadata or link target is skipped: no call ends
\* with the error of that node's symlink_metadata or read_link.
C5_VanishedEntryIsSkipped == sret \notin {"stat_entry", "read_link"}

IsPrefix(q, p) == Len(q) < Len(p) /\ \A k \in 1..Len(q) : q[k] = p[k]
HasDirCycle(E) ==
  \E p \in TreePaths(E), q \in TreePaths(E) :
    IsPrefix(q, p) /\ Resolve(E, Root, p) = Resolve(E, Root, q)

\* what is left to do for the walk: directories not yet entered, pending calls
\* and the call in progress
Rank ==
  (2 * Cardinality(Names) + 2) * Cardinality({i \in Inodes : kind[i] = "dir"} \ visited)
  + 2 * Len(stack)
  + (IF cur = NoCur THEN 0 ELSE IF cur.kind = "dir" THEN 2 * Cardinality(Names) + 1 ELSE 1)

\* C7: snapshot_prefix terminates on every finite tree, also when a directory
\* inode is reachable by several paths or through itself and when symlinks
\* point to an ancestor: every step of the walk lowers a natural-valued rank,
\* and every started call reaches its return.
C7_SnapshotTerminates ==
  /\ [][(spc = "walk" /\ spc' = "walk" /\ <<stack, cur, visited>>' # <<stack, cur, visited>>)
          => Rank' < Rank]_vars
  /\ (spc \notin {"idle", "done"}) ~> (spc = "done")
C7_Witness ==
  /\ spc = "done"
  /\ quiet
  /\ WalkEnded
  /\ HasDirCycle(ents)
  /\ \E i \in Reach(ents) : kind[i] = "symlink" /\ TargetOf(i) = ".."

DirEntryIdx(es) == {k \in 1..Len(es) : es[k].kind = "dir"}
Restored == rpc = "done" /\ rret = "ok"
\* relative paths the archive puts below its root name
ArchiveRel(es) ==
  UNION {{SubSeq(es[k].path, 2, j) : j \in 1..Len(es[k].path)} :
           k \in {i \in 1..Len(es) : es[i].path[1] = RootName}}

\* C2: after a successful restore no path remains below prefix_dir that was
\* there before the call, is not a path of the archive, and existed nowhere
\* but in the old prefix_dir (not below the directory `prefix` beside it).
C2_DestructiveRestore ==
  Restored =>
    \A p \in DOMAIN pre :
      (/\ Under(<<dest>>, p) /\ Len(p) > 1
       /\ Tail(p) \notin ArchiveRel(store.entries)
       /\ (dest = RootName \/ ~Exists(pre, <<RootName>> \o Tail(p))))
      => ~Exists(disk, p)
C2_Witness ==
  /\ Restored
  /\ Exists(pre, <<dest, "z">>)
  /\ ~Exists(disk, <<dest, "z">>)
  /\ \E p \in DOMAIN disk : Under(<<dest>>, p) /\ Len(p) > 1

\* C3: when the archive file does not exist the call returns the error and
\* prefix_dir and everything below it are as they were before the call.
C3_MissingArchiveKeepsDestination ==
  (rpc = "done" /\ rret = "open") => SubTree(disk, <<dest>>) = SubTree(pre, <<dest>>)

\* C4: while the archive is not yet wholly unpacked, and after a restore that
\* failed in the stream, nothing of the archive lies below prefix_dir, also
\* when prefix_dir is named `prefix`.
C4_NoPartialContentAtDestination ==
  (rpc = "unpack" \/ (rpc = "done" /\ rret \in {"untar_exists", "untar_io", "untar_eof"})) =>
    \A k \in 1..(rpos - 1) : ~Under(<<dest>>, store.entries[k].path)

\* C9: when two consecutive calls with the same archive and prefix_dir both
\* return Ok, the tree at prefix_dir after the second equals the tree after
\* the first.
C9_IdempotentRestore ==
  (Restored /\ last.valid) => SubTree(disk, <<dest>>) = last.tree

\* the source tree as restore should leave it below prefix_dir
TreeOf(E) ==
  [p \in TreePaths(E) |->
     LET i == Resolve(E, Root, p)
     IN [kind |-> kind[i],
         data |-> IF kind[i] = "file" THEN ContentOf(i) ELSE 0,
         target |-> IF kind[i] = "symlink" THEN TargetOf(i) ELSE "",
         mode |-> ModeOf(kind[i], i)]]
Plain(E) == DirAliasFree(E) /\ noread \cap Reach(E) = {}

\* C1: a snapshot of a tree without aliased directories and unreadable files,
\* restored to prefix_dir, does not fail on the archive (missing file, cut-off
\* stream, entry that cannot be placed) and on Ok leaves at prefix_dir exactly
\* the paths of the tree, each with its kind, bytes, link text and mode.
C1_RoundTrip ==
  (rpc = "done" /\ Succeeded /\ Plain(ents)) =>
    /\ rret \notin {"open", "untar_exists", "untar_eof"}
    /\ rret = "ok" => SubTree(disk, <<dest>>) = TreeOf(ents)

\* C11: a file that is a well-formed archive but holds no entry rooted at
\* `prefix` (none at all, or only entries of another root) is never restored
\* with Ok.
Foreign(f) ==
  /\ f.exists /\ f.finished
  /\ \A k \in 1..Len(f.entries) : f.entries[k].path[1] # RootName
C11_ForeignArchiveRejected ==
  (rpc = "done" /\ Foreign(store)) => rret # "ok"

\* ------------------------------------- more claims on snapshot_prefix
\* C12: every entry snapshot_prefix writes has the path `prefix` or a path
\* below `prefix`, and the archive path of every node is `prefix` joined with
\* the node's path below the source directory, name by name.
C12_RootNameInvariant ==
  /\ \A k \in 1..Len(store.entries) :
       /\ Len(store.entries[k].path) >= 1
       /\ store.entries[k].path[1] = RootName
  /\ \A k \in 1..Len(stack) : stack[k].tar = <<RootName>> \o stack[k].src
  /\ cur # NoCur => cur.tar = <<RootName>> \o cur.src
C12_Witness ==
  /\ Succeeded
  /\ \E k \in 1..Len(store.entries) : Len(store.entries[k].path) = 3

\* C13: when nothing exists at the source path, the call does not end with
\* the error of the source directory's symlink_metadata: it writes an archive
\* with nothing below the root and returns its path.
C13_MissingSourceIsDegenerate ==
  (spc = "done" /\ kind = NoSource) => sret # "stat_root"

EntriesAt(p) == {k \in 1..Len(store.entries) : store.entries[k].path = p}
\* the walk entered every directory above p at this path (none of them was
\* skipped as an inode already visited)
Walked(p) ==
  \A j \in 0..(Len(p) - 1) : EntriesAt(<<RootName>> \o SubSeq(p, 1, j)) # {}

C15_SourceTreeNotMutated ==
  [][SnapStep => (kind' = kind /\ ents' = ents)]_vars

\* C19: a call that returns Ok returns the text snapshots_dir, "/", the
\* snapshot name, ".tar.zst"; snapshots_dir exists and the file at the
\* returned path exists.
C19_ReturnedPath ==
  Succeeded =>
    /\ sout = SnapshotsDir(sarg.inside) \o <<"/">> \o sarg.name \o <<".tar.zst">>
    /\ sdir
    /\ store.exists

\* ------------------------------------------ claims on concurrent restores
\* what an archive holds below its root name
RECURSIVE UnpackAll(_, _, _)
UnpackAll(d, es, k) ==
  IF k > Len(es) THEN d ELSE UnpackAll(UnpackEntry(d, es[k]), es, k + 1)
ArchiveTree(f) == SubTree(UnpackAll(EmptyDisk, f.entries, 1), <<RootName>>)

\* C16: when two restore_prefix calls on two prefix_dirs of one parent
\* directory run at the same time and both return Ok, each prefix_dir holds
\* exactly the tree of its own archive.
C16_ConcurrentRestoresIsolated ==
  (Restored /\ peer.pc = "done" /\ peer.ret = "ok") =>
    /\ SubTree(disk, <<dest>>) = ArchiveTree(store)
    /\ SubTree(disk, <<peer.dest>>) = ArchiveTree(peer.store)

\* --------------------------------------- more claims on restore_prefix
StreamErrors == {"untar_exists", "untar_io", "untar_eof"}

\* C17: after a call that failed between the removal of the old prefix_dir
\* and the rename (open, decode, unpack or rename error) nothing exists at
\* prefix_dir, not even an empty directory.
C17_FailureLeavesDestinationAbsent ==
  (rpc = "done" /\ rret \in {"open", "rename"} \cup StreamErrors) => ~Exists(disk, <<dest>>)

\* C18: an error of the stream at any entry ends the call with that error,
\* and the rename is reached only from a stream that was unpacked to its end:
\* a call that got a stream error never renames.
C18_StreamErrorsAreFatal ==
  /\ [](rret \in StreamErrors => rpc = "done")
  /\ [][rpc' = "rename" =>
         (rpc = "move" /\ rpos > Len(store.entries) /\ store.finished /\ rret' \notin StreamErrors)]_vars
  /\ [][rpc = "rename" => rret' \notin StreamErrors]_vars
C18_Witness ==
  /\ rpc = "done"
  /\ rret = "untar_eof"
  /\ rpos > 1
  /\ dest # RootName
  /\ Exists(disk, <<RootName>>)

\* C20: a call whose create_dir_all or File::create failed has returned that
\* error without a single symlink_metadata on the source tree, and the step
\* in which create_dir_all fails leaves the output file as it was.
C20_SetupErrorsStop ==
  /\ [](sret \in {"create_dir_all", "create"} =>
         (spc = "done" /\ visited = {} /\ stack = <<>> /\ cur = NoCur))
  /\ [][sret' = "create_dir_all" => store' = store]_vars
C20_Witness ==
  /\ spc = "done"
  /\ sret = "create"
  /\ sdir
  /\ ents # {}

\* ------------------------------------- claims on failed snapshot calls
\* errors that leave snapshot_prefix after File::create succeeded
LateErrors == {"stat_root", "stat_entry", "read_link", "finish_tar", "finish_zstd"}

\* C21: after a call that failed once the output file was created, the file
\* is there and is not a finished archive, and it holds nothing of the archive
\* an earlier call stored under the same name: on a tree nobody changed
\* during the call every entry in it names a node the tree has now.
C21_PartialOutputLeftBehind ==
  (spc = "done" /\ sret \in LateErrors) =>
    /\ store.exists
    /\ ~store.finished
    /\ quiet => \A k \in 1..Len(store.entries) : EntryIno(store.entries[k]) # 0
C21_Witness ==
  /\ spc = "done"
  /\ sret = "finish_tar"
  /\ quiet
  /\ over
  /\ store.entries # <<>>

\* regular files the walk came to and wrote no entry for
SkippedFiles ==
  {p \in TreePaths(ents) :
     /\ kind[Resolve(ents, Root, p)] = "file"
     /\ Walked(p)
     /\ EntriesAt(<<RootName>> \o p) = {}}

\* C22: after a successful call on a tree nobody changed, every node the walk
\* skipped has a record in what the call reported.
C22_SkipsAreReported ==
  (Succeeded /\ quiet) => \A p \in SkippedFiles : (<<RootName>> \o p) \in slog

\* ------------------------------------------- order inside restore_prefix
\* C23: in a call the old prefix_dir is removed with all below it before the
\* archive is opened and before an entry is placed; the rename comes only
\* after the whole stream was unpacked without error; when the removal fails
\* the disk is as it was at the call.
C23_RestoreOrdering ==
  /\ [](rpc = "open" => DOMAIN SubTree(disk, <<dest>>) = {<<>>})
  /\ [](rpc \in {"remove", "mkdir", "open"} =>
         /\ rpos = 0
         /\ \A p \in DOMAIN disk :
              ~Under(<<dest>>, p) => (Exists(pre, p) /\ disk[p] = pre[p]))
  /\ [][rpc' = "rename" =>
         (rpc = "move" /\ rpos > Len(store.entries) /\ store.finished)]_vars
  /\ []((rpc = "done" /\ rret = "remove") => disk = pre)
C23_Witness ==
  /\ rpc = "rename"
  /\ Exists(pre, <<dest, "z">>)
  /\ rpos > 2
  /\ ~Exists(disk, <<dest>>)

\* ------------------------------------------ more claims on the walk
\* the call about to run meets a directory inode that is in visited_inodes
MeetsVisitedDir ==
  /\ spc = "walk" /\ cur = NoCur /\ stack # <<>>
  /\ LET i == Stat(ents, Head(stack).src)
     IN i # 0 /\ kind[i] = "dir" /\ i \in visited
\* directory paths of the tree the archive has no entry at
LaterDirPaths ==
  {q \in TreePaths(ents) :
     kind[Resolve(ents, Root, q)] = "dir" /\ EntriesAt(<<RootName>> \o q) = {}}

C25_OnlyArchiveContent ==
  Restored =>
    \A q \in DOMAIN SubTree(disk, <<dest>>) :
      q # <<>> => q \in ArchiveRel(store.entries)

\* C26: when a call has returned, Ok or not, everything that was in the
\* parent directory outside prefix_dir before the call is there unchanged.
C26_SiblingsUnchanged ==
  rpc = "done" =>
    \A p \in DOMAIN pre :
      ~Under(<<dest>>, p) => (Exists(disk, p) /\ disk[p] = pre[p])

\* ------------------------------------------- the end of snapshot_prefix
WalkErrors == {"stat_root", "stat_entry", "read_link"}

C30_MarkerAfterVerifiedExtract ==
  /\ [](emarker.exists =>
          /\ edist.state = "full"
          /\ emarker.sha # NoHex => ToLower(emarker.sha) = Sha256(edist.content))
  /\ [][emarker' # emarker =>
          epc = "marker" /\ edone = {"download", "verify", "extract"}]_vars
  /\ [][(epc = "check" /\ emarker.exists /\ edist.state # "absent") =>
          /\ epc' = "idle" /\ eret' = "dist" /\ edone' = {}
          /\ UNCHANGED <<emarker, edist, eroot, eddir, edl>>]_vars
\* a call has returned early on a marker that an earlier call wrote after a
\* comparison with a sha256 spelled in upper case
C30_Witness ==
  /\ epc = "idle" /\ eret = "dist" /\ edone = {}
  /\ emarker.exists /\ emarker.sha.upper /\ emarker.sha.digest \in Blobs
  /\ earg.sha256.digest # emarker.sha.digest

====
